---- MODULE Spec2Model ----
(***************************************************************************)
(* Commercial Vehicle Offer Configurator API (src/main.py).                *)
(*                                                                         *)
(* State: the five module-level catalog lists, the "configuration"         *)
(* collection behind database.create_document, the last catalog response,  *)
(* and one record per create_offer call (a FastAPI sync handler, run on a  *)
(* worker thread with its own payload object).                             *)
(*                                                                         *)
(* Optional values (Python None / a value) are sequences of length <= 1.   *)
(***************************************************************************)
EXTENDS Integers, Sequences, FiniteSets, TLC

VARIABLES VEHICLES, COLORS, UPHOLSTERIES, FACTORY_OPTIONS, ACCESSORIES,
          store, calls, catalog_response

catalogs == <<VEHICLES, COLORS, UPHOLSTERIES, FACTORY_OPTIONS, ACCESSORIES>>
vars == <<VEHICLES, COLORS, UPHOLSTERIES, FACTORY_OPTIONS, ACCESSORIES,
          store, calls, catalog_response>>

\* ----- bounds -----
\* Number of create_offer calls that may be in flight together.
NumCalls == 2
\* Most codes a single-call payload lists, factory_options and accessories
\* together.
MaxCodes == 2

None == <<>>
Some(x) == <<x>>
Range(s) == {s[i] : i \in 1..Len(s)}

\* ----- the catalog literals -----
VehiclesInit ==
    << [id |-> "van-s",   name |-> "City Van S",    base_price |-> 18990],
       [id |-> "van-m",   name |-> "Transit M",     base_price |-> 23990],
       [id |-> "truck-l", name |-> "Cargo Truck L", base_price |-> 44990] >>

ColorsInit ==
    << [code |-> "WHI", name |-> "Arctic White",   price |-> 0],
       [code |-> "BLK", name |-> "Midnight Black", price |-> 450],
       [code |-> "SLV", name |-> "Glacier Silver", price |-> 450],
       [code |-> "RED", name |-> "Signal Red",     price |-> 690] >>

UpholsteriesInit ==
    << [code |-> "FAB-G", name |-> "Fabric Grey",   price |-> 0],
       [code |-> "FAB-B", name |-> "Fabric Black",  price |-> 120],
       [code |-> "LEA-B", name |-> "Leather Black", price |-> 890] >>

FactoryOptionsInit ==
    << [code |-> "PKG-COMF",  name |-> "Comfort Package",         price |-> 990],
       [code |-> "NAV-PRO",   name |-> "Navigation Pro",          price |-> 1290],
       [code |-> "ACC-ADAPT", name |-> "Adaptive Cruise Control", price |-> 790],
       [code |-> "CAM-360",   name |-> "360 Camera",              price |-> 650] >>

AccessoriesInit ==
    << [code |-> "MAT-RUB",   name |-> "Rubber Floor Mats", price |-> 99],
       [code |-> "RACK-ROOF", name |-> "Roof Rack",         price |-> 299],
       [code |-> "BOX-TOOL",  name |-> "Tool Storage Box",  price |-> 179] >>

\* ----- Python built-ins used by the handlers -----
\* x in list
Contains(list, x) == \E i \in 1..Len(list) : list[i] = x

\* next((e for e in catalog if e[key] == value), None): the first match.
NextById(catalog, value) ==
    LET hits == {i \in 1..Len(catalog) : catalog[i].id = value}
    IN  IF hits = {} THEN None
        ELSE Some(catalog[CHOOSE i \in hits : \A j \in hits : i <= j])

NextByCode(catalog, value) ==
    LET hits == {i \in 1..Len(catalog) : catalog[i].code = value}
    IN  IF hits = {} THEN None
        ELSE Some(catalog[CHOOSE i \in hits : \A j \in hits : i <= j])

\* sum(e["price"] for e in catalog if e["code"] in codes): one term per
\* catalog entry, in catalog order.
RECURSIVE SumPrices(_, _)
SumPrices(catalog, codes) ==
    IF catalog = <<>> THEN 0
    ELSE (IF Contains(codes, Head(catalog).code) THEN Head(catalog).price ELSE 0)
         + SumPrices(Tail(catalog), codes)

\* sum with one term per element of codes (a count-based sum).
RECURSIVE SumPerCode(_, _)
SumPerCode(catalog, codes) ==
    IF codes = <<>> THEN 0
    ELSE (LET e == NextByCode(catalog, Head(codes))
          IN  IF e = None THEN 0 ELSE e[1].price)
         + SumPerCode(catalog, Tail(codes))

\* float(n): every catalog price is an int and every total is below 2^31,
\* far inside the range where a double holds an int exactly, so the value
\* is unchanged.
ToFloat(n) == n

\* ----- calculate_total -----
CalculateTotalPerCode(cfg) ==
    LET base     == NextById(VEHICLES, cfg.vehicle_id)
        color    == NextByCode(COLORS, cfg.color_code)
        up       == NextByCode(UPHOLSTERIES, cfg.upholstery_code)
    IN  ToFloat((IF base = None THEN 0 ELSE base[1].base_price)
              + (IF color = None THEN 0 ELSE color[1].price)
              + (IF up = None THEN 0 ELSE up[1].price)
              + SumPerCode(FACTORY_OPTIONS, cfg.factory_options)
              + SumPerCode(ACCESSORIES, cfg.accessories))

CalculateTotalNoAccessories(cfg) ==
    LET base     == NextById(VEHICLES, cfg.vehicle_id)
        color    == NextByCode(COLORS, cfg.color_code)
        up       == NextByCode(UPHOLSTERIES, cfg.upholstery_code)
    IN  ToFloat((IF base = None THEN 0 ELSE base[1].base_price)
              + (IF color = None THEN 0 ELSE color[1].price)
              + (IF up = None THEN 0 ELSE up[1].price)
              + SumPrices(FACTORY_OPTIONS, cfg.factory_options))

CalculateTotal(cfg) ==
    LET base_price  == LET v == NextById(VEHICLES, cfg.vehicle_id)
                       IN  IF v = None THEN 0 ELSE v[1].base_price
        color_price == LET c == NextByCode(COLORS, cfg.color_code)
                       IN  IF c = None THEN 0 ELSE c[1].price
        up_price    == LET u == NextByCode(UPHOLSTERIES, cfg.upholstery_code)
                       IN  IF u = None THEN 0 ELSE u[1].price
        opt_sum     == SumPrices(FACTORY_OPTIONS, cfg.factory_options)
        acc_sum     == SumPrices(ACCESSORIES, cfg.accessories)
    IN  ToFloat(base_price + color_price + up_price + opt_sum + acc_sum)

\* ----- payloads -----
\* Configuration (src/schemas.py): the fields of a submitted configuration.
Configuration(vid, vname, cc, cname, uc, uname, fo, acc, cust, tp) ==
    [vehicle_id |-> vid, vehicle_name |-> vname,
     color_code |-> cc, color_name |-> cname,
     upholstery_code |-> uc, upholstery_name |-> uname,
     factory_options |-> fo, accessories |-> acc,
     special_agreement |-> None, customer |-> cust, total_price |-> tp]

\* Payloads of the concurrent specification: the spec's example with forged
\* names and total, a configuration with a repeated option and an accessory,
\* and one payload per required field naming no catalog entry.
Payloads ==
    { Configuration("van-s", "FAKE", "BLK", "FAKE", "FAB-G", "FAKE",
                    <<"NAV-PRO", "UNKNOWN-X">>, <<>>, "alice", Some(999999)),
      Configuration("truck-l", "Cargo Truck L", "RED", "Signal Red", "LEA-B", "Leather Black",
                    <<"CAM-360", "CAM-360">>, <<"MAT-RUB", "UNKNOWN-A">>, "bob", None),
      Configuration("nonexistent", "FAKE", "WHI", "Arctic White", "FAB-G", "Fabric Grey",
                    <<"PKG-COMF">>, <<>>, "carol", Some(999999)),
      Configuration("van-m", "Transit M", "XXX", "FAKE", "FAB-B", "Fabric Black",
                    <<>>, <<"BOX-TOOL">>, "dave", None),
      Configuration("van-m", "Transit M", "SLV", "Glacier Silver", "XXX", "FAKE",
                    <<>>, <<>>, "erin", Some(0)) }

\* Payloads of the single-call specification: every vehicle, color and
\* upholstery code plus one unknown code each, and every pair of a
\* factory_options list and an accessories list that holds at most MaxCodes
\* codes, unknown codes included.
VehicleIds == {VehiclesInit[i].id : i \in 1..Len(VehiclesInit)} \cup {"nonexistent"}
ColorCodes == {ColorsInit[i].code : i \in 1..Len(ColorsInit)} \cup {"XXX"}
UpholsteryCodes == {UpholsteriesInit[i].code : i \in 1..Len(UpholsteriesInit)} \cup {"XXX"}
OptionCodes == {FactoryOptionsInit[i].code : i \in 1..Len(FactoryOptionsInit)} \cup {"UNKNOWN-X"}
AccessoryCodes == {AccessoriesInit[i].code : i \in 1..Len(AccessoriesInit)} \cup {"UNKNOWN-A"}
SeqsUpTo(S, n) == UNION {[1..k -> S] : k \in 0..n}

SinglePayload(v, c, u, fo, acc) ==
    Configuration(v, "FAKE", c, "FAKE", u, "FAKE", fo, acc, "alice", Some(999999))

\* Messages of the exceptions create_document may raise.
DbErrors == {"storage unreachable"}

\* ----- a create_offer call -----
IdleCall ==
    [pc |-> "idle", input |-> None, cfg |-> None,
     vehicle |-> None, color |-> None, upholstery |-> None,
     total |-> None, offer_id |-> None, response |-> None,
     trace |-> <<>>, writes |-> 0]

\* create_offer entered: cfg = payload.configuration.
SubmittedCall(payload) ==
    [IdleCall EXCEPT !.pc = "validate", !.input = Some(payload), !.cfg = Some(payload)]

Submit(p, payload) ==
    /\ calls[p].pc = "idle"
    /\ calls' = [calls EXCEPT ![p] = SubmittedCall(payload)]
    /\ UNCHANGED <<catalogs, store, catalog_response>>


\* ----- create_offer, step by step -----
HTTPException(status_code, detail) == [status_code |-> status_code, detail |-> detail]
OfferResponse(offer_id, total_price) ==
    [status_code |-> 200, offer_id |-> offer_id, total_price |-> total_price]

\* Lines 99-103: the three lookups and the guard that raises the 400.
Rejected400(p, vehicle, color, upholstery) ==
    [calls[p] EXCEPT !.vehicle = vehicle, !.color = color, !.upholstery = upholstery,
                     !.trace = Append(@, "validate"),
                     !.response = Some(HTTPException(400, "Invalid catalog selection")),
                     !.pc = "done"]

Validated(p, vehicle, color, upholstery) ==
    [calls[p] EXCEPT !.vehicle = vehicle, !.color = color, !.upholstery = upholstery,
                     !.trace = Append(@, "validate"),
                     !.pc = "resolve"]

\* Validation that also rejects a factory option or accessory code the
\* catalog does not hold.
ValidateStrict(p) ==
    /\ calls[p].pc = "validate"
    /\ LET cfg        == calls[p].cfg[1]
           vehicle    == NextById(VEHICLES, cfg.vehicle_id)
           color      == NextByCode(COLORS, cfg.color_code)
           upholstery == NextByCode(UPHOLSTERIES, cfg.upholstery_code)
           unknown    == \/ \E i \in 1..Len(cfg.factory_options) :
                                NextByCode(FACTORY_OPTIONS, cfg.factory_options[i]) = None
                         \/ \E i \in 1..Len(cfg.accessories) :
                                NextByCode(ACCESSORIES, cfg.accessories[i]) = None
       IN  IF vehicle = None \/ color = None \/ upholstery = None \/ unknown
           THEN calls' = [calls EXCEPT ![p] = Rejected400(p, vehicle, color, upholstery)]
           ELSE calls' = [calls EXCEPT ![p] = Validated(p, vehicle, color, upholstery)]
    /\ UNCHANGED <<catalogs, store, catalog_response>>

\* Validation that stores the submitted document before it looks anything up.
ValidateAfterInsert(p) ==
    /\ calls[p].pc = "validate"
    /\ LET cfg        == calls[p].cfg[1]
           vehicle    == NextById(VEHICLES, cfg.vehicle_id)
           color      == NextByCode(COLORS, cfg.color_code)
           upholstery == NextByCode(UPHOLSTERIES, cfg.upholstery_code)
       IN  /\ store' = Append(store, [id |-> Len(store) + 1, doc |-> cfg])
           /\ IF vehicle = None \/ color = None \/ upholstery = None
              THEN calls' = [calls EXCEPT ![p] =
                       [Rejected400(p, vehicle, color, upholstery) EXCEPT !.writes = @ + 1]]
              ELSE calls' = [calls EXCEPT ![p] =
                       [Validated(p, vehicle, color, upholstery) EXCEPT !.writes = @ + 1]]
    /\ UNCHANGED <<catalogs, catalog_response>>

Validate(p) ==
    /\ calls[p].pc = "validate"
    /\ LET cfg        == calls[p].cfg[1]
           vehicle    == NextById(VEHICLES, cfg.vehicle_id)
           color      == NextByCode(COLORS, cfg.color_code)
           upholstery == NextByCode(UPHOLSTERIES, cfg.upholstery_code)
       IN  IF vehicle = None \/ color = None \/ upholstery = None
           THEN calls' = [calls EXCEPT ![p] = Rejected400(p, vehicle, color, upholstery)]
           ELSE calls' = [calls EXCEPT ![p] = Validated(p, vehicle, color, upholstery)]
    /\ UNCHANGED <<catalogs, store, catalog_response>>

\* Lines 105-107: the names are overwritten from the entries found.
ResolveNames(p) ==
    /\ calls[p].pc = "resolve"
    /\ calls' = [calls EXCEPT
            ![p].cfg = Some([calls[p].cfg[1] EXCEPT
                                !.vehicle_name = calls[p].vehicle[1].name,
                                !.color_name = calls[p].color[1].name,
                                !.upholstery_name = calls[p].upholstery[1].name]),
            ![p].trace = Append(@, "resolve"),
            ![p].pc = "price"]
    /\ UNCHANGED <<catalogs, store, catalog_response>>

\* The total is returned but never written onto the configuration.
PriceKeepsClientTotal(p) ==
    /\ calls[p].pc = "price"
    /\ calls' = [calls EXCEPT ![p].total = Some(CalculateTotal(calls[p].cfg[1])),
                              ![p].trace = Append(@, "price"),
                              ![p].pc = "write"]
    /\ UNCHANGED <<catalogs, store, catalog_response>>

\* The total kept in one module-level variable that every call in flight
\* reads back.
PriceSharedTotal(p) ==
    /\ calls[p].pc = "price"
    /\ LET total == CalculateTotal(calls[p].cfg[1])
       IN  calls' = [q \in DOMAIN calls |->
                IF q = p
                THEN [calls[q] EXCEPT !.total = Some(total),
                                      !.cfg = Some([calls[q].cfg[1] EXCEPT !.total_price = Some(total)]),
                                      !.trace = Append(@, "price"),
                                      !.pc = "write"]
                ELSE IF calls[q].pc = "write"
                THEN [calls[q] EXCEPT !.total = Some(total),
                                      !.cfg = Some([calls[q].cfg[1] EXCEPT !.total_price = Some(total)])]
                ELSE calls[q]]
    /\ UNCHANGED <<catalogs, store, catalog_response>>

\* Lines 109-110: total = calculate_total(cfg); cfg.total_price = total.
Price(p) ==
    /\ calls[p].pc = "price"
    /\ LET total == CalculateTotal(calls[p].cfg[1])
       IN  calls' = [calls EXCEPT
               ![p].total = Some(total),
               ![p].cfg = Some([calls[p].cfg[1] EXCEPT !.total_price = Some(total)]),
               ![p].trace = Append(@, "price"),
               ![p].pc = "write"]
    /\ UNCHANGED <<catalogs, store, catalog_response>>

\* database.create_document("configuration", data): the gateway either
\* stores the whole document under a newly generated identifier and returns
\* the identifier, or raises and stores nothing.
NewId == Len(store) + 1
CreateDocumentOk(data) == store' = Append(store, [id |-> NewId, doc |-> data])
CreateDocumentRaises == store' = store

\* The except clause reports the storage failure with the client error.
WriteFaultAsClientError(p) ==
    /\ calls[p].pc = "write"
    /\ LET data == calls[p].cfg[1]
       IN  \/ /\ CreateDocumentOk(data)
              /\ calls' = [calls EXCEPT ![p].offer_id = Some(NewId),
                                        ![p].writes = @ + 1,
                                        ![p].trace = Append(@, "write"),
                                        ![p].pc = "respond"]
           \/ /\ CreateDocumentRaises
              /\ \E e \in DbErrors :
                    calls' = [calls EXCEPT
                        ![p].response = Some(HTTPException(400, "Invalid catalog selection")),
                        ![p].trace = Append(@, "write"),
                        ![p].pc = "done"]
    /\ UNCHANGED <<catalogs, catalog_response>>

\* The except clause swallows the storage failure and the handler goes on
\* to its return statement.
WriteSwallowsFailure(p) ==
    /\ calls[p].pc = "write"
    /\ LET data == calls[p].cfg[1]
       IN  \/ /\ CreateDocumentOk(data)
              /\ calls' = [calls EXCEPT ![p].offer_id = Some(NewId),
                                        ![p].writes = @ + 1,
                                        ![p].trace = Append(@, "write"),
                                        ![p].pc = "respond"]
           \/ /\ CreateDocumentRaises
              /\ calls' = [calls EXCEPT ![p].offer_id = Some(0),
                                        ![p].trace = Append(@, "write"),
                                        ![p].pc = "respond"]
    /\ UNCHANGED <<catalogs, catalog_response>>

\* create_document called a second time with the same data.
WriteTwice(p) ==
    /\ calls[p].pc = "write"
    /\ LET data == calls[p].cfg[1]
       IN  \/ /\ store' = Append(Append(store, [id |-> NewId, doc |-> data]),
                                 [id |-> NewId + 1, doc |-> data])
              /\ calls' = [calls EXCEPT ![p].offer_id = Some(NewId + 1),
                                        ![p].writes = @ + 2,
                                        ![p].trace = Append(@, "write"),
                                        ![p].pc = "respond"]
           \/ /\ CreateDocumentRaises
              /\ \E e \in DbErrors :
                    calls' = [calls EXCEPT
                        ![p].response = Some(HTTPException(500, "Database error: " \o e)),
                        ![p].trace = Append(@, "write"),
                        ![p].pc = "done"]
    /\ UNCHANGED <<catalogs, catalog_response>>

\* Lines 113-117: data = cfg.model_dump(); create_document inside the try;
\* the except clause raises the 500.
Write(p) ==
    /\ calls[p].pc = "write"
    /\ LET data == calls[p].cfg[1]
       IN  \/ /\ CreateDocumentOk(data)
              /\ calls' = [calls EXCEPT ![p].offer_id = Some(NewId),
                                        ![p].writes = @ + 1,
                                        ![p].trace = Append(@, "write"),
                                        ![p].pc = "respond"]
           \/ /\ CreateDocumentRaises
              /\ \E e \in DbErrors :
                    calls' = [calls EXCEPT
                        ![p].response = Some(HTTPException(500, "Database error: " \o e)),
                        ![p].trace = Append(@, "write"),
                        ![p].pc = "done"]
    /\ UNCHANGED <<catalogs, catalog_response>>

\* Line 119: return OfferResponse(offer_id=offer_id, total_price=total).
Respond(p) ==
    /\ calls[p].pc = "respond"
    /\ calls' = [calls EXCEPT
            ![p].response = Some(OfferResponse(calls[p].offer_id[1], calls[p].total[1])),
            ![p].trace = Append(@, "respond"),
            ![p].pc = "done"]
    /\ UNCHANGED <<catalogs, store, catalog_response>>

\* ----- the catalog endpoints -----
CatalogResponse(endpoint, body) == Some([endpoint |-> endpoint, body |-> body])

\* The list is sorted by name in place before it is returned.
GetVehiclesSortsInPlace ==
    /\ VEHICLES' = <<VEHICLES[3], VEHICLES[1], VEHICLES[2]>>
    /\ catalog_response' = CatalogResponse("vehicles", VEHICLES')
    /\ UNCHANGED <<COLORS, UPHOLSTERIES, FACTORY_OPTIONS, ACCESSORIES, store, calls>>

GetVehicles ==
    /\ catalog_response' = CatalogResponse("vehicles", VEHICLES)
    /\ UNCHANGED <<catalogs, store, calls>>

GetColors ==
    /\ catalog_response' = CatalogResponse("colors", COLORS)
    /\ UNCHANGED <<catalogs, store, calls>>

GetUpholsteries ==
    /\ catalog_response' = CatalogResponse("upholsteries", UPHOLSTERIES)
    /\ UNCHANGED <<catalogs, store, calls>>

GetFactoryOptions ==
    /\ catalog_response' = CatalogResponse("factory-options", FACTORY_OPTIONS)
    /\ UNCHANGED <<catalogs, store, calls>>

GetAccessories ==
    /\ catalog_response' = CatalogResponse("accessories", ACCESSORIES)
    /\ UNCHANGED <<catalogs, store, calls>>

\* ----- specifications -----
InitCatalogs ==
    /\ VEHICLES = VehiclesInit
    /\ COLORS = ColorsInit
    /\ UPHOLSTERIES = UpholsteriesInit
    /\ FACTORY_OPTIONS = FactoryOptionsInit
    /\ ACCESSORIES = AccessoriesInit

\* The process after start-up: empty collection, no call entered.
Init ==
    /\ InitCatalogs
    /\ store = <<>>
    /\ catalog_response = None
    /\ calls = [p \in 1..NumCalls |-> IdleCall]

Next ==
    \/ \E p \in DOMAIN calls : \E payload \in Payloads : Submit(p, payload)
    \/ \E p \in DOMAIN calls : Validate(p)
    \/ \E p \in DOMAIN calls : ResolveNames(p)
    \/ \E p \in DOMAIN calls : Price(p)
    \/ \E p \in DOMAIN calls : Write(p)
    \/ \E p \in DOMAIN calls : Respond(p)
    \/ GetVehicles
    \/ GetColors
    \/ GetUpholsteries
    \/ GetFactoryOptions
    \/ GetAccessories

Spec == Init /\ [][Next]_vars

\* One create_offer call on its own, entered with any single-call payload.
InitSingle ==
    /\ InitCatalogs
    /\ store = <<>>
    /\ catalog_response = None
    /\ \E v \in VehicleIds, c \in ColorCodes, u \in UpholsteryCodes :
       \E fo \in SeqsUpTo(OptionCodes, MaxCodes) :
       \E acc \in SeqsUpTo(AccessoryCodes, MaxCodes - Len(fo)) :
          calls = [p \in {1} |-> SubmittedCall(SinglePayload(v, c, u, fo, acc))]

NextSingle ==
    \/ \E p \in DOMAIN calls : Validate(p)
    \/ \E p \in DOMAIN calls : ResolveNames(p)
    \/ \E p \in DOMAIN calls : Price(p)
    \/ \E p \in DOMAIN calls : Write(p)
    \/ \E p \in DOMAIN calls : Respond(p)

SpecSingle == InitSingle /\ [][NextSingle]_vars

\* ----- what the claims speak of -----
CodesOf(catalog) == {catalog[i].code : i \in 1..Len(catalog)}

\* The selection names a vehicle, a color and an upholstery of the catalog.
ValidSelection(cfg) ==
    /\ cfg.vehicle_id \in {VehiclesInit[i].id : i \in 1..Len(VehiclesInit)}
    /\ cfg.color_code \in CodesOf(ColorsInit)
    /\ cfg.upholstery_code \in CodesOf(UpholsteriesInit)

VehicleOf(id) == CHOOSE v \in Range(VehiclesInit) : v.id = id
ColorOf(code) == CHOOSE c \in Range(ColorsInit) : c.code = code
UpholsteryOf(code) == CHOOSE u \in Range(UpholsteriesInit) : u.code = code

RECURSIVE SumOfPrices(_)
SumOfPrices(entries) ==
    IF entries = {} THEN 0
    ELSE LET e == CHOOSE x \in entries : TRUE
         IN  e.price + SumOfPrices(entries \ {e})

\* base + color + upholstery + the catalog entries selected by membership.
ExpectedTotal(cfg) ==
    VehicleOf(cfg.vehicle_id).base_price
    + ColorOf(cfg.color_code).price
    + UpholsteryOf(cfg.upholstery_code).price
    + SumOfPrices({o \in Range(FactoryOptionsInit) : o.code \in Range(cfg.factory_options)})
    + SumOfPrices({a \in Range(AccessoriesInit) : a.code \in Range(cfg.accessories)})

\* The record a submission leaves when it runs alone: the submitted fields
\* with the catalog's names and the computed total.
ExpectedRecord(cfg) ==
    [cfg EXCEPT !.vehicle_name = VehicleOf(cfg.vehicle_id).name,
                !.color_name = ColorOf(cfg.color_code).name,
                !.upholstery_name = UpholsteryOf(cfg.upholstery_code).name,
                !.total_price = Some(ExpectedTotal(cfg))]

Outcome(p) ==
    IF calls[p].response = None THEN "none"
    ELSE CASE calls[p].response[1].status_code = 200 -> "Accepted"
           [] calls[p].response[1].status_code = 400 -> "Rejected"
           [] calls[p].response[1].status_code = 500 -> "Faulted"
           [] OTHER -> "other"

Entered(p) == calls[p].input # None
Done(p) == calls[p].pc = "done"
Priced(p) == calls[p].total # None
Quiescent == \A p \in DOMAIN calls : calls[p].pc \in {"idle", "done"}

RECURSIVE SumWrites(_)
SumWrites(ps) ==
    IF ps = {} THEN 0
    ELSE LET p == CHOOSE x \in ps : TRUE
         IN  calls[p].writes + SumWrites(ps \ {p})

HasUnknownCode(cfg) ==
    \/ \E c \in Range(cfg.factory_options) : c \notin CodesOf(FactoryOptionsInit)
    \/ \E c \in Range(cfg.accessories) : c \notin CodesOf(AccessoriesInit)

SelectIn(codes, known) == SelectSeq(codes, LAMBDA c : c \in known)
WithoutUnknownCodes(cfg) ==
    [cfg EXCEPT !.factory_options = SelectIn(@, CodesOf(FactoryOptionsInit)),
                !.accessories = SelectIn(@, CodesOf(AccessoriesInit))]

\* One fixed listing of a set of codes: it depends on the set alone.
OptionOrder == <<"PKG-COMF", "NAV-PRO", "ACC-ADAPT", "CAM-360", "UNKNOWN-X">>
AccessoryOrder == <<"MAT-RUB", "RACK-ROOF", "BOX-TOOL", "UNKNOWN-A">>
ListingOf(codeSet, order) == SelectSeq(order, LAMBDA c : c \in codeSet)
Reverse(s) == [i \in 1..Len(s) |-> s[Len(s) + 1 - i]]

\* C1: with vehicle, color and upholstery in the catalog, the total a call
\* computes is base price + color price + upholstery price + the prices of
\* the factory option entries whose code is in factory_options + the prices
\* of the accessory entries whose code is in accessories; van-s / BLK /
\* FAB-G with [NAV-PRO, UNKNOWN-X] and no accessories gives 20730.
C1_Additive ==
    \A p \in DOMAIN calls :
        (Priced(p) /\ ValidSelection(calls[p].input[1])) =>
            LET in == calls[p].input[1]
            IN  /\ calls[p].total[1] = ExpectedTotal(in)
                /\ ( /\ in.vehicle_id = "van-s" /\ in.color_code = "BLK"
                     /\ in.upholstery_code = "FAB-G"
                     /\ in.factory_options = <<"NAV-PRO", "UNKNOWN-X">>
                     /\ in.accessories = <<>> ) => calls[p].total[1] = 20730

C1_Witness ==
    \E p \in DOMAIN calls :
        /\ Priced(p) /\ calls[p].total[1] = 20730
        /\ calls[p].input[1].vehicle_id = "van-s"
        /\ calls[p].input[1].factory_options = <<"NAV-PRO", "UNKNOWN-X">>

\* C4: a submission with valid vehicle, color and upholstery that lists a
\* factory option or accessory code absent from the catalog is not rejected
\* with the 400, and its total is the total of the same configuration with
\* the unknown codes removed.
C4_UnknownTolerated ==
    \A p \in DOMAIN calls :
        (ValidSelection(calls[p].input[1]) /\ HasUnknownCode(calls[p].input[1])) =>
            /\ Outcome(p) # "Rejected"
            /\ Priced(p) =>
                 calls[p].total[1] = CalculateTotal(WithoutUnknownCodes(calls[p].input[1]))

C4_Witness ==
    \E p \in DOMAIN calls :
        /\ Outcome(p) = "Accepted"
        /\ calls[p].input[1].factory_options = <<"UNKNOWN-X">>
        /\ calls[p].input[1].accessories = <<"BOX-TOOL">>
        /\ calls[p].response[1].total_price = calls[p].total[1]

\* C8: the total depends only on the set of codes in factory_options and
\* in accessories: it is the total of the fixed listing of the same two
\* code sets, of the two lists reversed, and of the two lists with every
\* code repeated.
C8_SetOnly ==
    \A p \in DOMAIN calls :
        Priced(p) =>
            LET in == calls[p].input[1]
                fo == in.factory_options
                ac == in.accessories
            IN  /\ calls[p].total[1] = CalculateTotal(
                      [in EXCEPT !.factory_options = ListingOf(Range(fo), OptionOrder),
                                 !.accessories = ListingOf(Range(ac), AccessoryOrder)])
                /\ calls[p].total[1] = CalculateTotal(
                      [in EXCEPT !.factory_options = Reverse(fo), !.accessories = Reverse(ac)])
                /\ calls[p].total[1] = CalculateTotal(
                      [in EXCEPT !.factory_options = fo \o fo, !.accessories = ac \o ac])

C8_Witness ==
    \E p \in DOMAIN calls :
        /\ Priced(p)
        /\ calls[p].input[1].vehicle_id = "van-m"
        /\ calls[p].input[1].factory_options = <<"NAV-PRO", "NAV-PRO">>
        /\ calls[p].input[1].accessories = <<>>
        /\ calls[p].total[1] = 23990 + 1290
        /\ calls[p].input[1].color_code = "WHI" /\ calls[p].input[1].upholstery_code = "FAB-G"

WriteFailed(p) == "write" \in Range(calls[p].trace) /\ calls[p].writes = 0
StoredUnder(id) == {i \in 1..Len(store) : store[i].id = id}

\* C2: a submission whose vehicle_id, color_code or upholstery_code matches
\* no catalog entry ends with the 400 "Invalid catalog selection", having
\* priced nothing and written nothing, and the step that rejects it leaves
\* the stored offers as they were.
C2_InvalidRejected ==
    /\ [](\A p \in DOMAIN calls :
            (Entered(p) /\ ~ValidSelection(calls[p].input[1]) /\ Done(p)) =>
                /\ calls[p].response = Some(HTTPException(400, "Invalid catalog selection"))
                /\ ~Priced(p)
                /\ calls[p].writes = 0
                /\ calls[p].offer_id = None
                /\ calls[p].trace = <<"validate">>)
    /\ [][\A p \in DOMAIN calls :
            (Entered(p) /\ ~ValidSelection(calls[p].input[1]) /\ calls'[p] # calls[p])
                => store' = store]_vars

C2_Witness ==
    /\ \E p \in DOMAIN calls :
          /\ Outcome(p) = "Rejected"
          /\ calls[p].input[1].vehicle_id = "nonexistent"
    /\ \E q \in DOMAIN calls :
          /\ Outcome(q) = "Rejected"
          /\ calls[q].input[1].upholstery_code = "XXX"
    /\ store = <<>>

\* C3: every stored offer carries the catalog names for its vehicle_id,
\* color_code and upholstery_code and the computed total for its codes,
\* whatever names and total the client sent; the total_price of a response
\* is the total_price of the record stored under its offer_id.
C3_ServerSideOverride ==
    /\ \A i \in 1..Len(store) :
          LET doc == store[i].doc
          IN  /\ doc.vehicle_name = VehicleOf(doc.vehicle_id).name
              /\ doc.color_name = ColorOf(doc.color_code).name
              /\ doc.upholstery_name = UpholsteryOf(doc.upholstery_code).name
              /\ doc.total_price = Some(CalculateTotal(doc))
    /\ \A p \in DOMAIN calls :
          Outcome(p) = "Accepted" =>
              \E i \in 1..Len(store) :
                  /\ store[i].id = calls[p].response[1].offer_id
                  /\ store[i].doc.total_price = Some(calls[p].response[1].total_price)

C3_Witness ==
    \E p \in DOMAIN calls :
        /\ Outcome(p) = "Accepted"
        /\ calls[p].input[1].vehicle_name = "FAKE"
        /\ calls[p].input[1].total_price = Some(999999)
        /\ calls[p].response[1].total_price = 20730
        /\ \E i \in 1..Len(store) :
              /\ store[i].id = calls[p].response[1].offer_id
              /\ store[i].doc.vehicle_name = "City Van S"

\* C5: a call that returns an offer_id has made exactly one write and a call
\* rejected by validation none, and once no call is in flight the number
\* of stored offers is the number of calls that returned an offer_id.
C5_OneWritePerSuccess ==
    /\ Len(store) = SumWrites(DOMAIN calls)
    /\ \A p \in DOMAIN calls :
          /\ Outcome(p) = "Accepted" => calls[p].writes = 1
          /\ Outcome(p) = "Rejected" => calls[p].writes = 0
    /\ Quiescent =>
          Len(store) = Cardinality({p \in DOMAIN calls : Outcome(p) = "Accepted"})

C5_Witness ==
    /\ Quiescent
    /\ Len(store) = 1
    /\ \E p \in DOMAIN calls : Outcome(p) = "Accepted"
    /\ \E p \in DOMAIN calls : Outcome(p) = "Rejected"

\* C6: when validation passes and create_document fails, the call ends
\* with a 500 "Database error: ..." and not with the 400, returns no
\* offer_id, and the failing step adds nothing to the store.
C6_PersistenceFailure ==
    /\ [](\A p \in DOMAIN calls :
            WriteFailed(p) =>
                /\ Done(p)
                /\ calls[p].response[1].status_code = 500
                /\ \E e \in DbErrors :
                      calls[p].response[1].detail = "Database error: " \o e
                /\ calls[p].response[1] # HTTPException(400, "Invalid catalog selection")
                /\ "offer_id" \notin DOMAIN calls[p].response[1]
                /\ calls[p].offer_id = None)
    /\ [][\A p \in DOMAIN calls :
            (~WriteFailed(p) /\ WriteFailed(p)') => store' = store]_vars

C6_Witness ==
    \E p \in DOMAIN calls :
        /\ WriteFailed(p)
        /\ Outcome(p) = "Faulted"
        /\ ValidSelection(calls[p].input[1])
        /\ store = <<>>

\* C7: calls in flight together do not interact: whatever the
\* interleaving, a call is rejected exactly when its own selection is
\* invalid, the record stored under an offer_id and the total in the
\* response are those the submission gives alone, the offer_ids of
\* different calls differ, and every step keeps each stored record and adds
\* at most one.
C7_Independent ==
    /\ [](/\ \A p \in DOMAIN calls :
              /\ Done(p) => (Outcome(p) = "Rejected" <=> ~ValidSelection(calls[p].input[1]))
              /\ calls[p].offer_id # None =>
                    /\ Cardinality(StoredUnder(calls[p].offer_id[1])) = 1
                    /\ \A i \in StoredUnder(calls[p].offer_id[1]) :
                          store[i].doc = ExpectedRecord(calls[p].input[1])
              /\ Outcome(p) = "Accepted" =>
                    /\ calls[p].response[1].offer_id = calls[p].offer_id[1]
                    /\ calls[p].response[1].total_price = ExpectedTotal(calls[p].input[1])
          /\ \A p, q \in DOMAIN calls :
              (p # q /\ calls[p].offer_id # None /\ calls[q].offer_id # None)
                  => calls[p].offer_id # calls[q].offer_id)
    /\ [][/\ Len(store) <= Len(store') /\ Len(store') <= Len(store) + 1
          /\ \A i \in 1..Len(store) : store'[i] = store[i]]_vars

\* Two calls in flight together: the first has stored its record and not
\* yet answered, the second holds another total and has not yet written.
C7_Witness ==
    /\ calls[1].pc = "respond" /\ calls[2].pc = "write"
    /\ calls[1].total # calls[2].total
    /\ Len(store) = 1

\* C9: the five catalog lists are at every moment the lists of process
\* start, and every catalog response carries the list of its endpoint as
\* it was at process start.
C9_CatalogImmutable ==
    /\ VEHICLES = VehiclesInit
    /\ COLORS = ColorsInit
    /\ UPHOLSTERIES = UpholsteriesInit
    /\ FACTORY_OPTIONS = FactoryOptionsInit
    /\ ACCESSORIES = AccessoriesInit
    /\ catalog_response # None =>
          catalog_response[1].body =
              CASE catalog_response[1].endpoint = "vehicles" -> VehiclesInit
                [] catalog_response[1].endpoint = "colors" -> ColorsInit
                [] catalog_response[1].endpoint = "upholsteries" -> UpholsteriesInit
                [] catalog_response[1].endpoint = "factory-options" -> FactoryOptionsInit
                [] catalog_response[1].endpoint = "accessories" -> AccessoriesInit

C9_Witness ==
    /\ catalog_response # None
    /\ catalog_response[1].endpoint = "vehicles"
    /\ \E p \in DOMAIN calls : Outcome(p) = "Accepted"
    /\ \E p \in DOMAIN calls : Outcome(p) \in {"Rejected", "Faulted"}

\* C10: a call has no response before it ends and ends in exactly one of
\* Rejected (validation failed), Accepted (validation passed, the write
\* succeeded) and Faulted (validation passed, the write failed); its steps
\* run in the order validate, resolve, price, write, respond, and the
\* success response comes after the write.
StepOrder == <<"validate", "resolve", "price", "write", "respond">>
C10_Outcomes ==
    \A p \in DOMAIN calls :
        /\ (calls[p].response # None) <=> Done(p)
        /\ calls[p].trace = SubSeq(StepOrder, 1, Len(calls[p].trace))
        /\ Done(p) =>
              /\ Outcome(p) \in {"Rejected", "Accepted", "Faulted"}
              /\ Outcome(p) = "Rejected" <=> ~ValidSelection(calls[p].input[1])
              /\ Outcome(p) = "Accepted" <=>
                    (ValidSelection(calls[p].input[1]) /\ calls[p].writes = 1)
              /\ Outcome(p) = "Faulted" <=>
                    (ValidSelection(calls[p].input[1]) /\ calls[p].writes = 0)
              /\ Outcome(p) = "Rejected" => calls[p].trace = <<"validate">>
              /\ Outcome(p) = "Accepted" => calls[p].trace = StepOrder
              /\ Outcome(p) = "Faulted" => calls[p].trace = SubSeq(StepOrder, 1, 4)

C10_Witness ==
    /\ \E p \in DOMAIN calls : Outcome(p) = "Accepted"
    /\ \E p \in DOMAIN calls : Outcome(p) = "Faulted"
====
